---- MODULE Spec2Model ----
(***************************************************************************)
(* Model of video_converter.py: the per-file transcode pipeline            *)
(* (process_video) run by a ProcessPoolExecutor, and the orchestrator      *)
(* (batch_process_videos) that classifies the directory, sizes the pool,   *)
(* collects the results with executor.map and prints the summary.          *)
(*                                                                         *)
(* Sizes are kept in bytes-like integer units: get_video_size_mb divides   *)
(* by 2^20, which is exact and order preserving, so comparisons between    *)
(* sizes are the comparisons of the integers.                              *)
(***************************************************************************)
EXTENDS Integers, Sequences, FiniteSets, TLC

\* ------------------------------------------------------------------ bounds
MaxFiles == 2
MaxCpu == 3
MaxSize == 2
MaxDuration == 120
MaxLen == 3

\* --------------------------------------------------------------- constants
base_bitrate == 3000000

VARIABLES
    all_files,          \* the directory listing (input_path.glob("*"))
    cpu_count,          \* multiprocessing.cpu_count()
    pc,                 \* where batch_process_videos is
    video_files,        \* supported files, in listing order
    unsupported_files,  \* the rest of the listing
    max_workers,        \* pool size, 0 while no pool exists
    st,                 \* per submitted call: state of its future / worker
    loc,                \* per call: locals of process_video
    ret,                \* per call: what the future holds
    probe_calls,        \* per call: invocations of ffprobe
    mp4_calls,          \* per call: invocations of the MP4 ffmpeg command
    webm_calls,         \* per call: invocations of the WebM ffmpeg command
    mp4_fs,             \* output_dir/mp4/<name>.mp4 : size, 0 = no file
    webm_fs,            \* output_dir/webm/<name>.webm : size, 0 = no file
    results,            \* list(executor.map(...)) once collected
    summary,            \* what the summary printed
    env,                \* per call: what ffprobe and ffmpeg did for it (history)
    arg,                \* argument of a function exercised on its own
    out                 \* its value

vars == << all_files, cpu_count, pc, video_files, unsupported_files,
           max_workers, st, loc, ret, probe_calls, mp4_calls, webm_calls,
           mp4_fs, webm_fs, results, summary, env, arg, out >>

\* the state of a batch run
batch == << all_files, cpu_count, pc, video_files, unsupported_files,
            max_workers, st, loc, ret, probe_calls, mp4_calls, webm_calls,
            mp4_fs, webm_fs, results, summary, env >>

\* ------------------------------------------------------------ pure helpers
Min(a, b) == IF a <= b THEN a ELSE b
Max(a, b) == IF a >= b THEN a ELSE b

Uppers ==
    << "A", "B", "C", "D", "E", "F", "G", "H", "I", "J", "K", "L", "M",
       "N", "O", "P", "Q", "R", "S", "T", "U", "V", "W", "X", "Y", "Z" >>
Lowers ==
    << "a", "b", "c", "d", "e", "f", "g", "h", "i", "j", "k", "l", "m",
       "n", "o", "p", "q", "r", "s", "t", "u", "v", "w", "x", "y", "z" >>
Digits == { "0", "1", "2", "3", "4", "5", "6", "7", "8", "9" }

Range(s) == { s[i] : i \in DOMAIN s }

\* the lower-case letter of each upper-case one
ToLower ==
    [ c \in Range(Uppers) |-> Lowers[CHOOSE i \in DOMAIN Uppers : Uppers[i] = c] ]

\* str.lower() on one character
LowerChar(c) == IF c \in DOMAIN ToLower THEN ToLower[c] ELSE c

\* str.lower()
Lower(s) == [ i \in DOMAIN s |-> LowerChar(s[i]) ]

Alnums == Range(Uppers) \cup Range(Lowers) \cup Digits

\* c.isalnum()
IsAlnum(c) == c \in Alnums

KeepChar(c) == IsAlnum(c) \/ c \in { "-", "_" }

\* a slip: one leading hyphen is taken off the result
format_filename_Trim(filename) ==
    LET lowered == Lower(filename)
        dashed == [ i \in DOMAIN lowered |->
                      IF lowered[i] = " " THEN "-" ELSE lowered[i] ]
        kept == SelectSeq(dashed, KeepChar)
    IN  IF kept # << >> /\ kept[1] = "-" THEN Tail(kept) ELSE kept

format_filename(filename) ==
    LET lowered == Lower(filename)
        dashed == [ i \in DOMAIN lowered |->
                      IF lowered[i] = " " THEN "-" ELSE lowered[i] ]
    IN  SelectSeq(dashed, KeepChar)

get_supported_formats ==
    << << ".", "m", "p", "4" >>, << ".", "m", "o", "v" >>,
       << ".", "m", "4", "v" >>, << ".", "a", "v", "i" >>,
       << ".", "m", "k", "v" >>, << ".", "w", "e", "b", "m" >> >>

\* a slip: the suffix is compared as it is spelled
IsSupported_Exact(f) == f.suffix \in Range(get_supported_formats)

\* line 208: f.suffix.lower() in supported_formats
IsSupported(f) == Lower(f.suffix) \in Range(get_supported_formats)

\* lines 48-49 for a whole number of seconds d > 0, in exact arithmetic:
\* int(min(12, d * 0.2) * 8 * 1024 * 1024 / d)
TargetBitrate(d) ==
    LET bits_times_5 == IF d <= 60 THEN d * 8 * 1024 * 1024
                                   ELSE 60 * 8 * 1024 * 1024
    IN  bits_times_5 \div (5 * d)

\* a slip: a budget of 0.5 MB per second of video instead of 0.2
calculate_target_bitrate_Budget(d) ==
    LET bits_times_2 == IF d <= 24 THEN d * 8 * 1024 * 1024
                                   ELSE 24 * 8 * 1024 * 1024
    IN  Min(bits_times_2 \div (2 * d), base_bitrate)

\* line 50
calculate_target_bitrate(d) == Min(TargetBitrate(d), base_bitrate)

ffmpeg_threads(c) == Max(1, c \div 2)

\* a slip: the floor of one worker left out
PoolSize_NoFloor(c) == c - 1

\* line 234
PoolSize(c) == Max(1, c - 1)

\* ------------------------------------------------------------------ inputs
\* The files a directory may hold: two whose stems normalise to the same
\* name, one of its own, and one that is no video.
FilePool ==
    << [ stem |-> << "A", " ", "b" >>, suffix |-> << ".", "m", "p", "4" >>, size |-> 3 ],
       [ stem |-> << "a", "-", "b" >>, suffix |-> << ".", "M", "K", "V" >>, size |-> 2 ],
       [ stem |-> << "c", "!" >>,      suffix |-> << ".", "m", "o", "v" >>, size |-> 4 ],
       [ stem |-> << "n" >>,           suffix |-> << ".", "t", "x", "t" >>, size |-> 1 ] >>

Listing(S) ==
    LET idx == SelectSeq(<< 1, 2, 3, 4 >>, LAMBDA i : i \in S)
    IN  [ k \in DOMAIN idx |-> FilePool[idx[k]] ]

Directories ==
    { Listing(S) : S \in { T \in SUBSET (DOMAIN FilePool) : Cardinality(T) <= MaxFiles } }

OutNames == { format_filename(FilePool[i].stem) : i \in DOMAIN FilePool }

Durations == { 0, 30 }
Sizes == 1 .. MaxSize

\* the 12 MB of line 48 in bits: the longest duration, in seconds, whose
\* planned rate is not below 1 bit per second
target_size_cap_bits == 12 * 8 * 1024 * 1024

\* the durations the planner is applied to: every whole number of seconds
\* up to MaxDuration, and the two around the cap in bits
PlanDurations ==
    (1 .. MaxDuration) \cup { target_size_cap_bits, target_size_cap_bits + 1 }

\* -------------------------------------------------------- python values
PyNone == [ tag |-> "None" ]
Unset == [ tag |-> "unset" ]
\* the value a function returned
Returned(v) == [ tag |-> "returned", value |-> v ]
Exception(type) == [ tag |-> "exception", type |-> type ]

SuccessRecord(filename, original, mp4, webm, duration) ==
    [ tag |-> "dict", filename |-> filename, original_size |-> original,
      mp4_size |-> mp4, webm_size |-> webm, duration |-> duration,
      success |-> TRUE ]

FailureRecord(filename, error) ==
    [ tag |-> "dict", filename |-> filename, error |-> error, success |-> FALSE ]

\* the locals of process_video that live across its external calls:
\* video_info (line 69), target_bitrate (78), result (113, 140),
\* mp4_size (146) and webm_size as first measured (147)
\* and webm_size as measured again after the retry (178)
NoLocals ==
    [ video_info |-> Unset, target_bitrate |-> 0, result |-> Unset,
      mp4_size |-> 0, webm_size |-> 0, webm_size_retry |-> 0 ]

\* what the external tools did for one call: the answer of ffprobe, whether
\* the ffmpeg executable was found, the exit status and written size of the
\* MP4, first WebM and second WebM commands; `raced` records that the call
\* had an encoder writing an output path while the encoder of another call
\* was writing the same path, `rank` the place of the call in the order of completion
NoOutcomes ==
    [ probe |-> Unset, ffmpeg |-> Unset, mp4 |-> Unset, webm |-> Unset,
      retry |-> Unset, raced |-> FALSE, rank |-> 0 ]

\* how much of that history a specification keeps: nothing, the exit
\* statuses, the written sizes and the order of completion as well, or only
\* which calls met on an output path
KeepNothing == "nothing"
KeepStatus == "status"
KeepSizes == "sizes"
KeepRaces == "races"

Outcome(keep, returncode, size) ==
    [ tag |-> "outcome", returncode |-> returncode,
      size |-> IF keep = KeepSizes THEN size ELSE 0 ]

Found(present) == [ tag |-> "found", present |-> present ]

Completed(returncode) == [ tag |-> "CompletedProcess", returncode |-> returncode ]

\* str(CalledProcessError): names the command, here by its codec and -b:v /
\* -maxrate figure, and the exit status
CalledProcessError(cmd, rate, returncode) ==
    [ cmd |-> cmd, rate |-> rate, returncode |-> returncode ]

\* int(target_bitrate * 0.9), int(target_bitrate * 0.7)
FirstPassRate(target_bitrate) == (target_bitrate * 9) \div 10
RetryRate(target_bitrate) == (target_bitrate * 7) \div 10

Calls == DOMAIN st

\* a slip: every call names its outputs after the first file of the batch
Name_OfFirst(i) == format_filename(video_files[1].stem)

\* line 56: the base name of the outputs of call i
Name(i) == format_filename(video_files[i].stem)

\* -------------------------------------------------------------------- Init
Init ==
    /\ all_files \in Directories
    /\ cpu_count \in 1 .. MaxCpu
    /\ pc = "scan"
    /\ video_files = << >>
    /\ unsupported_files = << >>
    /\ max_workers = 0
    /\ st = << >>
    /\ loc = << >>
    /\ ret = << >>
    /\ probe_calls = << >>
    /\ mp4_calls = << >>
    /\ webm_calls = << >>
    /\ mp4_fs = [ n \in OutNames |-> 0 ]
    /\ webm_fs = [ n \in OutNames |-> 0 ]
    /\ results = << >>
    /\ summary = Unset
    /\ env = << >>
    /\ arg = Unset
    /\ out = Unset


\* ------------------------------------------------- futures and the pool
Active == pc \in { "collecting", "unwinding" }

Running(i) ==
    st[i] \in { "probing", "encodingMp4", "encodingWebm", "reencodingWebm" }

Finished(i) == st[i] \in { "returned", "raised", "cancelled" }

\* a call sits in the executor's call queue: no longer cancellable
Queued(i) == st[i] = "queued"

Return(i, value) ==
    /\ st' = [ st EXCEPT ![i] = "returned" ]
    /\ ret' = [ ret EXCEPT ![i] = value ]

Raise(i, type) ==
    /\ st' = [ st EXCEPT ![i] = "raised" ]
    /\ ret' = [ ret EXCEPT ![i] = Exception(type) ]

\* os.path.exists / os.path.getsize on the output paths
Exists(fs, n) == fs[n] # 0

\* the file system after an encoder that exited 0 wrote `size` to path n
\* (size 0: it wrote no file, whatever was there stays)
Written(fs, n, size) == IF size = 0 THEN fs ELSE [ fs EXCEPT ![n] = size ]

\* ------------------------------------------------------- batch_process_videos
\* lines 208-209
Supported(files) == SelectSeq(files, IsSupported)
Unsupported(files) ==
    SelectSeq(files, LAMBDA f : f \notin Range(Supported(files)))

\* a slip: the guard of line 211 left out
NothingToDo_Never(files) == FALSE

\* line 211: `if not video_files`
NothingToDo(files) == files = << >>

Classify ==
    /\ pc = "scan"
    /\ video_files' = Supported(all_files)
    /\ unsupported_files' = Unsupported(all_files)
    /\ pc' = IF NothingToDo(video_files') THEN "nothing" ELSE "report"
    /\ UNCHANGED << all_files, cpu_count, max_workers, st, loc, ret,
                    probe_calls, mp4_calls, webm_calls, mp4_fs, webm_fs,
                    results, summary >>
    /\ UNCHANGED << env, arg, out >>

\* lines 234-242: size the pool, submit one call per video file
CreatePool ==
    /\ pc = "report"
    /\ max_workers' = PoolSize(cpu_count)
    /\ st' = [ i \in DOMAIN video_files |-> "pending" ]
    /\ loc' = [ i \in DOMAIN video_files |-> NoLocals ]
    /\ ret' = [ i \in DOMAIN video_files |-> Unset ]
    /\ probe_calls' = [ i \in DOMAIN video_files |-> 0 ]
    /\ mp4_calls' = [ i \in DOMAIN video_files |-> 0 ]
    /\ webm_calls' = [ i \in DOMAIN video_files |-> 0 ]
    /\ pc' = "collecting"
    /\ env' = [ i \in DOMAIN video_files |-> NoOutcomes ]
    /\ UNCHANGED << all_files, cpu_count, video_files, unsupported_files,
                    mp4_fs, webm_fs, results, summary, arg, out >>

\* the executor moves submitted calls, oldest first, into its call queue,
\* which holds at most max_workers + 1 calls
Prefetch(i) ==
    /\ Active
    /\ st[i] = "pending"
    /\ \A j \in Calls : j < i => st[j] # "pending"
    /\ Cardinality({ j \in Calls : Queued(j) }) < max_workers + 1
    /\ st' = [ st EXCEPT ![i] = "queued" ]
    /\ UNCHANGED << all_files, cpu_count, pc, video_files, unsupported_files,
                    max_workers, loc, ret, probe_calls, mp4_calls, webm_calls,
                    mp4_fs, webm_fs, results, summary, env, arg, out >>

FreeWorker == Cardinality({ j \in Calls : Running(j) }) < max_workers

\* a slip that is a guard: a call waits while a running call has its name
Start_Guarded(i) ==
    /\ Active
    /\ st[i] = "queued"
    /\ \A j \in Calls : j < i => st[j] # "queued"
    /\ FreeWorker
    /\ \A j \in Calls : Running(j) => Name(j) # Name(i)
    /\ st' = [ st EXCEPT ![i] = "probing" ]
    /\ probe_calls' = [ probe_calls EXCEPT ![i] = @ + 1 ]
    /\ UNCHANGED << all_files, cpu_count, pc, video_files, unsupported_files,
                    max_workers, loc, ret, mp4_calls, webm_calls,
                    mp4_fs, webm_fs, results, summary, env, arg, out >>

\* a free worker takes the oldest queued call and runs process_video up to
\* its call of ffprobe (lines 52-69)
Start(i) ==
    /\ Active
    /\ st[i] = "queued"
    /\ \A j \in Calls : j < i => st[j] # "queued"
    /\ FreeWorker
    /\ st' = [ st EXCEPT ![i] = "probing" ]
    /\ probe_calls' = [ probe_calls EXCEPT ![i] = @ + 1 ]
    /\ UNCHANGED << all_files, cpu_count, pc, video_files, unsupported_files,
                    max_workers, loc, ret, mp4_calls, webm_calls,
                    mp4_fs, webm_fs, results, summary, env, arg, out >>


\* -------------------------------------------------------------- process_video
Others == << all_files, cpu_count, pc, video_files, unsupported_files,
             max_workers, results, summary, arg, out >>

\* a slip: the encoders write to paths that do not depend on the file
Writing_Anywhere(s, i) ==
    IF s[i] = "encodingMp4" THEN { << "mp4", n >> : n \in OutNames }
    ELSE IF s[i] \in { "encodingWebm", "reencodingWebm" }
    THEN { << "webm", n >> : n \in OutNames }
    ELSE { }

\* the output paths call i is using in the pool state s: an encoder that is
\* running writes its output; the WebM encoder reads the MP4 file, and both
\* files are measured when it is back
Writing(s, i) ==
    IF s[i] = "encodingMp4" THEN { << "mp4", Name(i) >> }
    ELSE IF s[i] \in { "encodingWebm", "reencodingWebm" }
    THEN { << "webm", Name(i) >> }
    ELSE { }

Reading(s, i) ==
    IF s[i] \in { "encodingWebm", "reencodingWebm" }
    THEN { << "mp4", Name(i) >>, << "webm", Name(i) >> }
    ELSE { }

Contend(s, i, j) ==
    /\ i # j
    /\ \/ Writing(s, i) \cap (Writing(s, j) \cup Reading(s, j)) # { }
       \/ Writing(s, j) \cap (Writing(s, i) \cup Reading(s, i)) # { }

\* the encoders of two calls are writing one output path
Collide(s, i, j) == i # j /\ Writing(s, i) \cap Writing(s, j) # { }

\* the history after call i met outcome `what` of tool `tool`, the pool
\* going to state s
Recorded(keep, i, tool, what, s) ==
    IF keep = KeepStatus
    THEN [ env EXCEPT ![i][tool] = what ]
    ELSE IF keep = KeepSizes
    THEN [ env EXCEPT ![i][tool] = what,
                      ![i].rank = IF s[i] \in { "returned", "raised" }
                                  THEN Cardinality({ k \in DOMAIN s :
                                         s[k] \in { "returned", "raised" } })
                                  ELSE 0 ]
    ELSE IF keep = KeepRaces
    THEN [ k \in DOMAIN env |->
             [ env[k] EXCEPT !.raced = @ \/ \E j \in DOMAIN env : Collide(s, k, j) ] ]
    ELSE env

\* a slip: the MP4 command is started before video_info is looked at
OnProbeUnavailable_AfterEncode(i, info) ==
    /\ loc' = [ loc EXCEPT ![i].video_info = info ]
    /\ mp4_calls' = [ mp4_calls EXCEPT ![i] = @ + 1 ]
    /\ Return(i, PyNone)

\* lines 70-72: `if not video_info: ... return`
OnProbeUnavailable(i, info) ==
    /\ loc' = [ loc EXCEPT ![i].video_info = info ]
    /\ Return(i, PyNone)
    /\ UNCHANGED mp4_calls

\* lines 69-113: ffprobe came back with `info`; `present` says whether the
\* ffmpeg executable can be started
AfterProbe(i, info, present) ==
    IF info = PyNone
    THEN OnProbeUnavailable(i, info)
    ELSE IF info.duration = 0
    THEN \* line 50: float division by zero, outside the try block
         /\ loc' = [ loc EXCEPT ![i].video_info = info ]
         /\ Raise(i, "ZeroDivisionError")
         /\ UNCHANGED mp4_calls
    ELSE /\ loc' = [ loc EXCEPT ![i].video_info = info,
                                ![i].target_bitrate =
                                    calculate_target_bitrate(info.duration) ]
         /\ mp4_calls' = [ mp4_calls EXCEPT ![i] = @ + 1 ]
         /\ IF present
            THEN /\ st' = [ st EXCEPT ![i] = "encodingMp4" ]
                 /\ UNCHANGED ret
            ELSE \* subprocess.run raises FileNotFoundError: not caught
                 Raise(i, "FileNotFoundError")

ProbeOutcomes == { PyNone } \cup { [ duration |-> d ] : d \in Durations }

\* what the external tools may do: the answers of ffprobe, whether ffmpeg
\* can be started, the exit statuses of an encoder and the sizes it writes
\* when it exits 0 (0: no file)
AnyWorld ==
    [ infos |-> ProbeOutcomes, presents |-> BOOLEAN, codes |-> { 0, 1 },
      sizes |-> 0 .. MaxSize ]

\* tools that all succeed: a positive duration, ffmpeg there, exit status 0
\* and an output file written
HappyWorld ==
    [ infos |-> { [ duration |-> d ] : d \in Durations \ { 0 } },
      presents |-> { TRUE }, codes |-> { 0 }, sizes |-> Sizes ]

ProbeStep(i, keep, world) ==
    /\ Active
    /\ st[i] = "probing"
    /\ \E info \in world.infos, present \in world.presents :
          /\ AfterProbe(i, info, present)
          /\ env' = IF keep \in { KeepStatus, KeepSizes }
                       /\ info # PyNone /\ info.duration # 0
                    THEN [ Recorded(keep, i, "probe", info, st')
                             EXCEPT ![i].ffmpeg = Found(present) ]
                    ELSE Recorded(keep, i, "probe", info, st')
    /\ UNCHANGED << probe_calls, webm_calls, mp4_fs, webm_fs >>
    /\ UNCHANGED Others

ProbeReturns(i) == ProbeStep(i, KeepNothing, AnyWorld)

\* a slip: the exit status of the MP4 command is never looked at
Mp4Failed_Never(returncode) == FALSE

\* line 114
Mp4Failed(returncode) == returncode # 0

\* lines 113-140: the MP4 encoder exited with `returncode`, having written
\* `size` (0: nothing) to the MP4 path
AfterMp4(i, returncode, size) ==
    IF Mp4Failed(returncode)
    THEN /\ loc' = [ loc EXCEPT ![i].result = Completed(returncode) ]
         /\ Return(i, FailureRecord(Name(i),
                      CalledProcessError("mp4", loc[i].target_bitrate, returncode)))
         /\ UNCHANGED << mp4_fs, webm_calls >>
    ELSE /\ loc' = [ loc EXCEPT ![i].result = Completed(returncode) ]
         /\ mp4_fs' = Written(mp4_fs, Name(i), size)
         /\ IF Exists(mp4_fs', Name(i))
            THEN /\ webm_calls' = [ webm_calls EXCEPT ![i] = @ + 1 ]
                 /\ st' = [ st EXCEPT ![i] = "encodingWebm" ]
                 /\ UNCHANGED ret
            ELSE \* falls out of the try block: the function returns None
                 /\ Return(i, PyNone)
                 /\ UNCHANGED webm_calls

Mp4Step(i, keep, world) ==
    /\ Active
    /\ st[i] = "encodingMp4"
    /\ \E returncode \in world.codes, size \in { 0 } \cup world.sizes :
          /\ returncode # 0 => size = 0
          /\ returncode = 0 => size \in world.sizes
          /\ AfterMp4(i, returncode, size)
          /\ env' = Recorded(keep, i, "mp4", Outcome(keep, returncode, size), st')
    /\ UNCHANGED << probe_calls, mp4_calls, webm_fs >>
    /\ UNCHANGED Others

Mp4Returns(i) == Mp4Step(i, KeepNothing, AnyWorld)

\* a slip: >= where the code has >
NeedsRetry_Geq(webm_size, mp4_size) == webm_size >= mp4_size

\* line 155
NeedsRetry(webm_size, mp4_size) == webm_size > mp4_size

\* lines 140-188: the first WebM encoder exited
AfterWebm(i, returncode, size) ==
    IF returncode # 0
    THEN /\ loc' = [ loc EXCEPT ![i].result = Completed(returncode) ]
         /\ Return(i, FailureRecord(Name(i),
                      CalledProcessError("webm", FirstPassRate(loc[i].target_bitrate),
                                         returncode)))
         /\ UNCHANGED << webm_fs, webm_calls >>
    ELSE /\ webm_fs' = Written(webm_fs, Name(i), size)
         /\ IF ~ Exists(mp4_fs, Name(i)) \/ ~ Exists(webm_fs', Name(i))
            THEN \* os.path.getsize raises FileNotFoundError: not caught
                 /\ loc' = [ loc EXCEPT ![i].result = Completed(returncode) ]
                 /\ Raise(i, "FileNotFoundError")
                 /\ UNCHANGED webm_calls
            ELSE LET mp4_size == mp4_fs[Name(i)]
                     webm_size == webm_fs'[Name(i)]
                 IN  /\ loc' = [ loc EXCEPT ![i].result = Completed(returncode),
                                            ![i].mp4_size = mp4_size,
                                            ![i].webm_size = webm_size ]
                     /\ IF NeedsRetry(webm_size, mp4_size)
                        THEN /\ webm_calls' = [ webm_calls EXCEPT ![i] = @ + 1 ]
                             /\ st' = [ st EXCEPT ![i] = "reencodingWebm" ]
                             /\ UNCHANGED ret
                        ELSE /\ Return(i, SuccessRecord(Name(i), video_files[i].size,
                                                        mp4_size, webm_size,
                                                        loc[i].video_info.duration))
                             /\ UNCHANGED webm_calls

WebmStep(i, keep, world) ==
    /\ Active
    /\ st[i] = "encodingWebm"
    /\ \E returncode \in world.codes, size \in { 0 } \cup world.sizes :
          /\ returncode # 0 => size = 0
          /\ returncode = 0 => size \in world.sizes
          /\ AfterWebm(i, returncode, size)
          /\ env' = Recorded(keep, i, "webm", Outcome(keep, returncode, size), st')
    /\ UNCHANGED << probe_calls, mp4_calls, mp4_fs >>
    /\ UNCHANGED Others

WebmReturns(i) == WebmStep(i, KeepNothing, AnyWorld)

\* a slip: the retry written as a loop, `while webm_size > mp4_size`
AfterRetry_Loop(i, returncode, size) ==
    IF returncode # 0
    THEN /\ Return(i, FailureRecord(Name(i),
                      CalledProcessError("webm", RetryRate(loc[i].target_bitrate),
                                         returncode)))
         /\ UNCHANGED << webm_fs, webm_calls, loc >>
    ELSE /\ webm_fs' = Written(webm_fs, Name(i), size)
         /\ UNCHANGED loc
         /\ IF ~ Exists(webm_fs', Name(i))
            THEN /\ Raise(i, "FileNotFoundError")
                 /\ UNCHANGED webm_calls
            ELSE IF webm_fs'[Name(i)] > loc[i].mp4_size /\ webm_calls[i] < 3
            THEN /\ webm_calls' = [ webm_calls EXCEPT ![i] = @ + 1 ]
                 /\ UNCHANGED << st, ret >>
            ELSE /\ Return(i, SuccessRecord(Name(i), video_files[i].size,
                                            loc[i].mp4_size, webm_fs'[Name(i)],
                                            loc[i].video_info.duration))
                 /\ UNCHANGED webm_calls

\* a slip: the retry run without check=True, its exit status ignored
AfterRetry_Unchecked(i, returncode, size) ==
    /\ UNCHANGED webm_calls
    /\ webm_fs' = IF returncode # 0 THEN webm_fs ELSE Written(webm_fs, Name(i), size)
    /\ IF ~ Exists(webm_fs', Name(i))
       THEN /\ Raise(i, "FileNotFoundError")
            /\ UNCHANGED loc
       ELSE /\ loc' = [ loc EXCEPT ![i].webm_size_retry = webm_fs'[Name(i)] ]
            /\ Return(i, SuccessRecord(Name(i), video_files[i].size,
                                       loc[i].mp4_size,
                                       loc'[i].webm_size_retry,
                                       loc[i].video_info.duration))

\* a slip: the record after a retry still carries the first WebM size
SizeReported_First(first, second) == first

\* line 178: webm_size is measured again, and that is what line 180 reports
SizeReported(first, second) == second

\* lines 177-188: the second WebM encoder (check=True) exited
AfterRetry(i, returncode, size) ==
    /\ UNCHANGED webm_calls
    /\ IF returncode # 0
       THEN /\ Return(i, FailureRecord(Name(i),
                         CalledProcessError("webm", RetryRate(loc[i].target_bitrate),
                                            returncode)))
            /\ UNCHANGED << webm_fs, loc >>
       ELSE /\ webm_fs' = Written(webm_fs, Name(i), size)
            /\ IF ~ Exists(webm_fs', Name(i))
               THEN /\ Raise(i, "FileNotFoundError")
                    /\ UNCHANGED loc
               ELSE /\ loc' = [ loc EXCEPT ![i].webm_size_retry = webm_fs'[Name(i)] ]
                    /\ Return(i, SuccessRecord(Name(i), video_files[i].size,
                                               loc[i].mp4_size,
                                               SizeReported(loc[i].webm_size,
                                                            loc'[i].webm_size_retry),
                                               loc[i].video_info.duration))

RetryStep(i, keep, world) ==
    /\ Active
    /\ st[i] = "reencodingWebm"
    /\ \E returncode \in world.codes, size \in { 0 } \cup world.sizes :
          /\ returncode # 0 => size = 0
          /\ returncode = 0 => size \in world.sizes
          /\ AfterRetry(i, returncode, size)
          /\ env' = Recorded(keep, i, "retry", Outcome(keep, returncode, size), st')
    /\ UNCHANGED << probe_calls, mp4_calls, mp4_fs >>
    /\ UNCHANGED Others

RetryReturns(i) == RetryStep(i, KeepNothing, AnyWorld)

\* --------------------------------------- collecting the results, the summary
\* a slip: the results taken as soon as any call has returned
AllReturned_Any == \E i \in Calls : st[i] = "returned"

\* list(executor.map(...)) has every result
AllReturned == \A i \in Calls : st[i] = "returned"

\* the result iterator reaches a call that raised: every call before it
\* has returned
FirstRaised(i) ==
    /\ st[i] = "raised"
    /\ \A j \in Calls : j < i => st[j] = "returned"

\* line 242, normal end: every result is in the list, the pool is shut down
CollectAll ==
    /\ pc = "collecting"
    /\ AllReturned
    /\ results' = [ i \in Calls |-> ret[i] ]
    /\ pc' = "collected"
    /\ UNCHANGED << all_files, cpu_count, video_files, unsupported_files,
                    max_workers, st, loc, ret, probe_calls, mp4_calls,
                    webm_calls, mp4_fs, webm_fs, summary, env, arg, out >>

\* line 242, a call raised: the iterator re-raises it in the orchestrator
\* and cancels every call that is still pending
CollectRaise ==
    /\ pc = "collecting"
    /\ \E i \in Calls : FirstRaised(i)
    /\ st' = [ i \in Calls |-> IF st[i] = "pending" THEN "cancelled" ELSE st[i] ]
    /\ pc' = "unwinding"
    /\ UNCHANGED << all_files, cpu_count, video_files, unsupported_files,
                    max_workers, loc, ret, probe_calls, mp4_calls,
                    webm_calls, mp4_fs, webm_fs, results, summary,
                    env, arg, out >>

\* leaving the with block: shutdown(wait=True), then the exception leaves
\* batch_process_videos
ExitPool ==
    /\ pc = "unwinding"
    /\ \A i \in Calls : Finished(i)
    /\ pc' = "crashed"
    /\ UNCHANGED << all_files, cpu_count, video_files, unsupported_files,
                    max_workers, st, loc, ret, probe_calls, mp4_calls,
                    webm_calls, mp4_fs, webm_fs, results, summary,
                    env, arg, out >>

\* r and r.get('success', False)   /   r and not r.get('success', False)
Truthy(r) == r.tag = "dict"
IsSuccessful(r) == Truthy(r) /\ r.success
IsFailed(r) == Truthy(r) /\ ~ r.success

RECURSIVE SumOf(_, _)
SumOf(rs, field) ==
    IF rs = << >> THEN 0 ELSE rs[1][field] + SumOf(Tail(rs), field)

Summary(rs) ==
    LET successful == SelectSeq(rs, IsSuccessful)
        failed == SelectSeq(rs, IsFailed)
    IN  [ tag |-> "summary",
          successful |-> Len(successful),
          failed |-> Len(failed),
          total_original |-> SumOf(successful, "original_size"),
          total_mp4 |-> SumOf(successful, "mp4_size"),
          total_webm |-> SumOf(successful, "webm_size") ]

\* lines 244-264
Summarize ==
    /\ pc = "collected"
    /\ summary' = Summary(results)
    /\ pc' = "done"
    /\ UNCHANGED << all_files, cpu_count, video_files, unsupported_files,
                    max_workers, st, loc, ret, probe_calls, mp4_calls,
                    webm_calls, mp4_fs, webm_fs, results, env, arg, out >>

Next ==
    \/ Classify
    \/ CreatePool
    \/ \E i \in Calls : Prefetch(i)
    \/ \E i \in Calls : Start(i)
    \/ \E i \in Calls : ProbeReturns(i)
    \/ \E i \in Calls : Mp4Returns(i)
    \/ \E i \in Calls : WebmReturns(i)
    \/ \E i \in Calls : RetryReturns(i)
    \/ CollectAll
    \/ CollectRaise
    \/ ExitPool
    \/ Summarize

Spec == Init /\ [][Next]_vars

\* the same batch run with the exit statuses of the external tools kept
HistNext ==
    \/ Classify
    \/ CreatePool
    \/ \E i \in Calls : Prefetch(i)
    \/ \E i \in Calls : Start(i)
    \/ \E i \in Calls : ProbeStep(i, KeepStatus, AnyWorld)
    \/ \E i \in Calls : Mp4Step(i, KeepStatus, AnyWorld)
    \/ \E i \in Calls : WebmStep(i, KeepStatus, AnyWorld)
    \/ \E i \in Calls : RetryStep(i, KeepStatus, AnyWorld)
    \/ CollectAll
    \/ CollectRaise
    \/ ExitPool
    \/ Summarize

HistSpec == Init /\ [][HistNext]_vars

\* --------------------------------------------- the pure functions on their own
\* no batch is running
Idle ==
    /\ all_files = << >>
    /\ cpu_count = 1
    /\ pc = "scan"
    /\ video_files = << >>
    /\ unsupported_files = << >>
    /\ max_workers = 0
    /\ st = << >>
    /\ loc = << >>
    /\ ret = << >>
    /\ probe_calls = << >>
    /\ mp4_calls = << >>
    /\ webm_calls = << >>
    /\ mp4_fs = [ n \in OutNames |-> 0 ]
    /\ webm_fs = [ n \in OutNames |-> 0 ]
    /\ results = << >>
    /\ summary = Unset
    /\ env = << >>

\* calculate_target_bitrate applied to a duration
PlanInit == Idle /\ arg \in PlanDurations /\ out = Unset

Plan ==
    /\ out = Unset
    /\ out' = Returned(calculate_target_bitrate(arg))
    /\ UNCHANGED << arg, batch >>

PlanSpec == PlanInit /\ [][Plan]_vars

\* format_filename applied to a string: the strings of at most MaxLen
\* characters over an upper-case and a lower-case letter, a digit, the
\* space, the two characters that are kept and two that are dropped
NameChars == { "A", "b", "1", " ", "-", "_", "!", "." }

NameInputs == UNION { [ 1 .. n -> NameChars ] : n \in 0 .. MaxLen }

NameInit == Idle /\ arg \in NameInputs /\ out = Unset

Normalize ==
    /\ out = Unset
    /\ out' = Returned(format_filename(arg))
    /\ UNCHANGED << arg, batch >>

NameSpec == NameInit /\ [][Normalize]_vars

\* the classifier of lines 208-209 applied to a listing. The suffixes (what
\* Path.suffix gives, empty for a name without extension) an entry may have:
\* the six formats, other spellings of them, near misses and other files
EntrySuffixes ==
    << << ".", "m", "p", "4" >>, << ".", "t", "x", "t" >>,
       << ".", "M", "K", "V" >>, << ".", "p", "n", "g" >>,
       << ".", "m", "o", "v" >>, << ".", "m", "4", "v" >>,
       << ".", "a", "v", "i" >>, << ".", "m", "k", "v" >>,
       << ".", "w", "e", "b", "m" >>, << ".", "W", "e", "b", "M" >>,
       << ".", "M", "p", "4" >>, << >>, << ".", "m", "p" >>,
       << ".", "m", "p", "4", "x" >>, << ".", "m", "p", "3" >> >>

Entry(k) == [ stem |-> << "f", Lowers[k] >>, suffix |-> EntrySuffixes[k], size |-> 1 ]

\* a directory with one file of each of .mp4, .txt, .MKV, .png
ExampleListing == << Entry(1), Entry(2), Entry(3), Entry(4) >>

\* listings of at most MaxFiles entries, no entry twice, and the example
ClassifyInputs ==
    { [ k \in DOMAIN s |-> Entry(s[k]) ] :
        s \in { q \in UNION { [ 1 .. n -> DOMAIN EntrySuffixes ] : n \in 0 .. MaxFiles } :
                   \A i, j \in DOMAIN q : i # j => q[i] # q[j] } }
    \cup { ExampleListing }

ClassifyInit == Idle /\ arg \in ClassifyInputs /\ out = Unset

Sort ==
    /\ out = Unset
    /\ out' = Returned([ video_files |-> Supported(arg),
                         unsupported_files |-> Unsupported(arg) ])
    /\ UNCHANGED << arg, batch >>

ClassifySpec == ClassifyInit /\ [][Sort]_vars

\* the directory holds no two supported files whose names normalise alike
DistinctNames(files) ==
    \A i, j \in DOMAIN Supported(files) :
        i # j => format_filename(Supported(files)[i].stem)
                 # format_filename(Supported(files)[j].stem)

\* the batch run on such a directory, with everything the tools did and the
\* order in which the calls completed kept
DetInit == Init /\ DistinctNames(all_files)

DetNext ==
    \/ Classify
    \/ CreatePool
    \/ \E i \in Calls : Prefetch(i)
    \/ \E i \in Calls : Start(i)
    \/ \E i \in Calls : ProbeStep(i, KeepSizes, AnyWorld)
    \/ \E i \in Calls : Mp4Step(i, KeepSizes, AnyWorld)
    \/ \E i \in Calls : WebmStep(i, KeepSizes, AnyWorld)
    \/ \E i \in Calls : RetryStep(i, KeepSizes, AnyWorld)
    \/ CollectAll
    \/ CollectRaise
    \/ ExitPool
    \/ Summarize

DetSpec == DetInit /\ [][DetNext]_vars

\* the batch run with the meetings of calls on an output path kept
RaceNext ==
    \/ Classify
    \/ CreatePool
    \/ \E i \in Calls : Prefetch(i)
    \/ \E i \in Calls : Start(i)
    \/ \E i \in Calls : ProbeStep(i, KeepRaces, AnyWorld)
    \/ \E i \in Calls : Mp4Step(i, KeepRaces, AnyWorld)
    \/ \E i \in Calls : WebmStep(i, KeepRaces, AnyWorld)
    \/ \E i \in Calls : RetryStep(i, KeepRaces, AnyWorld)
    \/ CollectAll
    \/ CollectRaise
    \/ ExitPool
    \/ Summarize

RaceSpec == Init /\ [][RaceNext]_vars

\* the same batch run with tools that all succeed; no call raises then (part
\* of C11), so the iterator of line 242 has nothing to re-raise
HappyNext ==
    \/ Classify
    \/ CreatePool
    \/ \E i \in Calls : Prefetch(i)
    \/ \E i \in Calls : Start(i)
    \/ \E i \in Calls : ProbeStep(i, KeepNothing, HappyWorld)
    \/ \E i \in Calls : Mp4Step(i, KeepNothing, HappyWorld)
    \/ \E i \in Calls : WebmStep(i, KeepNothing, HappyWorld)
    \/ \E i \in Calls : RetryStep(i, KeepNothing, HappyWorld)
    \/ CollectAll
    \/ Summarize

HappySpec == Init /\ [][HappyNext]_vars


\* ===================================================================== claims
BatchOver == pc \in { "done", "crashed" }

\* C1: every supported asset yields exactly one result that is a Success or
\* a Failure record, so that when the summary is produced the success count
\* plus the failure count is the number of supported assets.
C1_OneResultPerAsset ==
    /\ \A i \in Calls : st[i] = "returned" => Truthy(ret[i])
    /\ pc = "done" => summary.successful + summary.failed = Len(video_files)

\* C2: no exception leaves process_video: no call's future holds an
\* exception and batch_process_videos is never left by one, so a batch with
\* a supported asset ends with its summary.
C2_NoExceptionEscapes ==
    /\ \A i \in Calls : st[i] # "raised"
    /\ pc # "crashed"
    /\ BatchOver /\ video_files # << >> => summary # Unset

\* C3: an asset probed with duration 0 ends as a Failure without any encoder
\* being invoked, and the batch is not aborted by it.
C3_ZeroDurationIsFailure ==
    \A i \in Calls :
        loc[i].video_info = [ duration |-> 0 ] =>
            /\ st[i] = "returned"
            /\ IsFailed(ret[i])
            /\ mp4_calls[i] = 0
            /\ webm_calls[i] = 0
            /\ pc # "crashed"

\* C4: for an asset whose probe returned unavailable, neither the MP4 nor
\* the WebM encoder is ever invoked, whatever the other assets are doing.
C4_NoEncodeWithoutMetadata ==
    \A i \in Calls :
        loc[i].video_info = PyNone => mp4_calls[i] = 0 /\ webm_calls[i] = 0

C4_Witness ==
    \E i, j \in Calls :
        /\ i # j
        /\ loc[i].video_info = PyNone
        /\ st[i] = "returned"
        /\ Running(j)
        /\ mp4_calls[j] = 1

\* C5: the WebM encoder is never invoked more than twice for an asset, and
\* once the first WebM output was measured larger than the MP4 output it has
\* been invoked exactly twice, however large the second output is.
C5_RetryExactlyOnce ==
    \A i \in Calls :
        /\ webm_calls[i] <= 2
        /\ loc[i].webm_size > loc[i].mp4_size => webm_calls[i] = 2

C5_Witness ==
    \E i \in Calls :
        /\ loc[i].webm_size > loc[i].mp4_size
        /\ st[i] = "returned"
        /\ IsSuccessful(ret[i])
        /\ ret[i].webm_size > ret[i].mp4_size
        /\ webm_calls[i] = 2

FirstWebmFailed(i) ==
    webm_calls[i] >= 1 /\ loc[i].result.returncode # 0

FirstWebmNotLarger(i) ==
    loc[i].webm_size # 0 /\ loc[i].webm_size <= loc[i].mp4_size

\* C6: a first WebM encode that exits non-zero ends the asset as a Failure
\* with one WebM invocation; a first WebM output not larger than the MP4
\* output ends it as a Success with one WebM invocation; a second WebM
\* invocation happens only after a zero exit and a larger first output.
C6_RetryOnlyOnSize ==
    \A i \in Calls :
        /\ FirstWebmFailed(i) =>
              st[i] = "returned" /\ IsFailed(ret[i]) /\ webm_calls[i] = 1
        /\ FirstWebmNotLarger(i) =>
              st[i] = "returned" /\ IsSuccessful(ret[i]) /\ webm_calls[i] = 1
        /\ webm_calls[i] = 2 =>
              loc[i].result.returncode = 0 /\ loc[i].webm_size > loc[i].mp4_size

C6_Witness ==
    \E i, j \in Calls :
        /\ FirstWebmFailed(i)
        /\ IsFailed(ret[i])
        /\ FirstWebmNotLarger(j)
        /\ loc[j].webm_size = loc[j].mp4_size
        /\ IsSuccessful(ret[j])

Mp4EncodeFailed(i) ==
    mp4_calls[i] = 1 /\ webm_calls[i] = 0 /\ loc[i].result # Unset
        /\ loc[i].result.returncode # 0

\* C7: the first WebM invocation of an asset happens in the step in which
\* its MP4 encode exited zero with the MP4 file on disk; an MP4 encode that
\* exited non-zero leaves the asset a Failure with no WebM invocation.
C7_WebmOnlyAfterMp4 ==
    /\ [](\A i \in Calls :
            Mp4EncodeFailed(i) => st[i] = "returned" /\ IsFailed(ret[i]))
    /\ [][\A i \in Calls :
            webm_calls[i] = 0 /\ webm_calls'[i] > 0 =>
                /\ st[i] = "encodingMp4"
                /\ loc'[i].result = Completed(0)
                /\ Exists(mp4_fs', Name(i))]_vars

C7_Witness ==
    \E i, j \in Calls :
        /\ Mp4EncodeFailed(i)
        /\ IsFailed(ret[i])
        /\ webm_calls[j] >= 1

\* C8: whenever the results have been reduced or the summary printed, every
\* submitted call has returned: none is pending, queued or running.
C8_SummaryAfterAllReturned ==
    (pc \in { "collected", "done" } \/ summary # Unset \/ results # << >>) =>
        \A i \in Calls : st[i] = "returned"

C8_Witness ==
    /\ summary # Unset
    /\ Len(video_files) >= 2
    /\ summary.successful >= 1
    /\ summary.failed >= 1

PoolExists == pc \in { "collecting", "unwinding", "collected", "done", "crashed" }

\* C9: once the pool exists its size is 1 on a one-CPU host and the CPU
\* count less one otherwise, it never changes afterwards, and the number of
\* calls being processed never exceeds it.
C9_PoolSizeFixed ==
    /\ [](PoolExists =>
            /\ max_workers = (IF cpu_count = 1 THEN 1 ELSE cpu_count - 1)
            /\ max_workers >= 1
            /\ Cardinality({ i \in Calls : Running(i) }) <= max_workers)
    /\ [][PoolExists => max_workers' = max_workers /\ cpu_count' = cpu_count]_vars

C9_Witness ==
    /\ cpu_count = 1
    /\ max_workers = 1
    /\ \E i, j \in Calls : Running(i) /\ st[j] = "queued"

\* C10: when the batch run is over every supported asset has been through
\* exactly one pipeline invocation: its probe ran exactly once and its MP4
\* encoder at most once.
C10_ProcessedExactlyOnce ==
    BatchOver =>
        \A i \in Calls : probe_calls[i] = 1 /\ mp4_calls[i] <= 1

\* the WebM size of call i as last measured: after the retry when there was one
FinalWebmSize(i) ==
    IF webm_calls[i] = 2 THEN loc[i].webm_size_retry ELSE loc[i].webm_size

RECURSIVE SumOver(_, _)
SumOver(S, f) ==
    IF S = { } THEN 0
    ELSE LET i == CHOOSE k \in S : TRUE IN f[i] + SumOver(S \ { i }, f)

\* C11: when every probe of a batch of N supported assets returns a positive
\* duration and every encoder call succeeds (exit status 0, output written),
\* no call raises, every call returns a Success record, the batch collects N
\* results, and the summary counts N successes, no failure, and has as its
\* three totals the sums of the per-asset original sizes, measured MP4
\* sizes and last measured WebM sizes.
C11_AllSucceedTotals ==
    /\ \A i \in Calls : st[i] # "raised"
    /\ \A i \in Calls : st[i] = "returned" =>
          /\ IsSuccessful(ret[i])
          /\ ret[i].original_size = video_files[i].size
          /\ ret[i].mp4_size = loc[i].mp4_size
          /\ ret[i].webm_size = FinalWebmSize(i)
    /\ pc \in { "collected", "done" } =>
          /\ Len(results) = Len(video_files)
          /\ \A i \in Calls : IsSuccessful(results[i])
    /\ pc = "done" =>
          /\ summary.successful = Len(video_files)
          /\ summary.failed = 0
          /\ summary.total_original =
                SumOver(Calls, [ i \in Calls |-> video_files[i].size ])
          /\ summary.total_mp4 =
                SumOver(Calls, [ i \in Calls |-> loc[i].mp4_size ])
          /\ summary.total_webm =
                SumOver(Calls, [ i \in Calls |-> FinalWebmSize(i) ])

\* a summarised batch of two assets, one of them after a retry that changed
\* the WebM size
C11_Witness ==
    /\ pc = "done"
    /\ Len(video_files) = 2
    /\ \E i \in Calls : webm_calls[i] = 2 /\ loc[i].webm_size_retry # loc[i].webm_size

\* what process_video(f) gives when it runs alone on an empty output
\* directory and the tools do what `o` says: lines 52-197 read top to bottom
Alone(f, name, o) ==
    IF o.probe = PyNone THEN PyNone
    ELSE IF o.probe.duration = 0 THEN Exception("ZeroDivisionError")
    ELSE IF ~ o.ffmpeg.present THEN Exception("FileNotFoundError")
    ELSE LET rate == calculate_target_bitrate(o.probe.duration) IN
    IF o.mp4.returncode # 0
    THEN FailureRecord(name, CalledProcessError("mp4", rate, o.mp4.returncode))
    ELSE IF o.mp4.size = 0 THEN PyNone
    ELSE IF o.webm.returncode # 0
    THEN FailureRecord(name, CalledProcessError("webm", FirstPassRate(rate),
                                                o.webm.returncode))
    ELSE IF o.webm.size = 0 THEN Exception("FileNotFoundError")
    ELSE IF ~ (o.webm.size > o.mp4.size)
    THEN SuccessRecord(name, f.size, o.mp4.size, o.webm.size, o.probe.duration)
    ELSE IF o.retry.returncode # 0
    THEN FailureRecord(name, CalledProcessError("webm", RetryRate(rate),
                                                o.retry.returncode))
    ELSE SuccessRecord(name, f.size, o.mp4.size,
                       IF o.retry.size = 0 THEN o.webm.size ELSE o.retry.size,
                       o.probe.duration)

\* C12: for assets with pairwise distinct normalised names, the outcome of
\* every call that ran is the one its own probe and encoder outcomes give it
\* when it runs alone, whatever the other calls did in between, and the
\* summary (success count, failure count, the three totals) is the summary
\* of those outcomes: it is the same in every order of completion.
C12_SummaryOrderFree ==
    /\ \A i \in Calls : st[i] \in { "returned", "raised" } =>
          ret[i] = Alone(video_files[i], Name(i), env[i])
    /\ pc = "done" =>
          summary = Summary([ i \in Calls |->
                               Alone(video_files[i], Name(i), env[i]) ])

\* a summarised batch with a Success and a Failure in which the call
\* submitted second completed first
C12_Witness ==
    /\ pc = "done"
    /\ Len(video_files) = 2
    /\ env[2].rank < env[1].rank
    /\ summary.successful = 1
    /\ summary.failed = 1

\* C13: when the normalised names of the supported assets are pairwise
\* distinct, in no reachable state does a call write an output path under
\* mp4/ or webm/ that another call is writing, reading or measuring.
C13_NoContention ==
    (\A i, j \in Calls : i # j => Name(i) # Name(j)) =>
        \A i, j \in Calls : ~ Contend(st, i, j)

\* two calls with distinct names whose encoders run at the same time, both
\* on their MP4 outputs
C13_Witness ==
    /\ \A i, j \in Calls : i # j => Name(i) # Name(j)
    /\ \E i, j \in Calls :
          /\ i # j
          /\ st[i] = "encodingMp4"
          /\ st[j] = "encodingMp4"

\* C14: nothing guards output paths. Whatever the names of the calls that
\* are running, the oldest queued call starts as soon as a worker is free,
\* and a call whose probe is back can start its MP4 encoder; a call meets
\* another on an output path only when the pool has at least two workers and
\* the other call has the same normalised name. (That such a meeting is
\* reachable, and that both calls can still return Success, is the witness.)
C14_CollisionUnguarded ==
    /\ \A i \in Calls :
          ( /\ Active
            /\ st[i] = "queued"
            /\ \A j \in Calls : j < i => st[j] # "queued"
            /\ FreeWorker ) => ENABLED Start(i)
    /\ \A i \in Calls :
          (Active /\ st[i] = "probing") =>
              ENABLED (ProbeStep(i, KeepRaces, AnyWorld) /\ st'[i] = "encodingMp4")
    /\ \A i \in Calls :
          env[i].raced =>
              /\ max_workers >= 2
              /\ \E j \in Calls : j # i /\ Name(j) = Name(i)

\* two files with different names and one normalised name have had their
\* encoders writing one output path at the same time, both returned Success, and the summary counts two successes
C14_Witness ==
    /\ pc = "done"
    /\ \E i, j \in Calls :
          /\ i # j
          /\ video_files[i].stem # video_files[j].stem
          /\ Name(i) = Name(j)
          /\ env[i].raced
          /\ env[j].raced
          /\ IsSuccessful(results[i])
          /\ IsSuccessful(results[j])
    /\ summary.successful = 2

\* C15: for every duration d > 0 the planned target bitrate is strictly
\* greater than 0 and at most 3,000,000 bits per second.
C15_BitrateInRange ==
    out # Unset => (out.value > 0 /\ out.value <= base_bitrate)

\* floor(0.2 * 8 * 1024 * 1024): the rate of a budget of 0.2 MB per second
budget_bitrate == (8 * 1024 * 1024) \div 5

\* C20: for every duration d > 0 the planned target bitrate is at most
\* floor(0.2 * 8 * 1024 * 1024) = 1,677,721 bits per second; it is that for
\* every d up to 60 s; no longer duration gets a higher rate than a shorter
\* one; and the 3,000,000 ceiling never decides the result, which is the
\* rate computed before the min and lies below the ceiling.
C20_CeilingNeverBinds ==
    out # Unset =>
        /\ budget_bitrate = 1677721
        /\ out.value <= budget_bitrate
        /\ arg <= 60 => out.value = budget_bitrate
        /\ \A e \in PlanDurations :
              e >= arg => calculate_target_bitrate(e) <= out.value
        /\ out.value = TargetBitrate(arg)
        /\ TargetBitrate(arg) < base_bitrate

\* a duration beyond 60 s was planned: a positive rate below the budget rate
C20_Witness ==
    /\ out # Unset
    /\ arg > 60
    /\ out.value > 0
    /\ out.value < budget_bitrate

\* C16: name normalisation is idempotent: for every string x,
\* format_filename(format_filename(x)) = format_filename(x).
C16_Idempotent ==
    out # Unset => format_filename(out.value) = out.value

\* a string that normalisation changes by lowering a letter, turning a space
\* into a hyphen and dropping a character
C16_Witness ==
    /\ out # Unset
    /\ arg = << "A", " ", "!" >>
    /\ out.value = << "a", "-" >>

\* two characters that are the same up to the case of a letter
SameCharIgnoringCase(x, y) ==
    \/ x = y
    \/ \E k \in DOMAIN Uppers : { x, y } = { Uppers[k], Lowers[k] }

\* two extensions that are the same up to the case of their letters
SameIgnoringCase(a, b) ==
    /\ Len(a) = Len(b)
    /\ \A k \in DOMAIN a : SameCharIgnoringCase(a[k], b[k])

\* the six extensions the claim lists
SixExtensions ==
    { << ".", "m", "p", "4" >>, << ".", "m", "o", "v" >>,
      << ".", "m", "4", "v" >>, << ".", "a", "v", "i" >>,
      << ".", "m", "k", "v" >>, << ".", "w", "e", "b", "m" >> }

\* C17: the classifier partitions the listing: every entry is in exactly
\* one of supported and unsupported, nothing else is in them, and an entry is
\* supported iff its extension is, up to case, one of .mp4, .mov, .m4v,
\* .avi, .mkv, .webm; of files .mp4, .txt, .MKV, .png exactly the .mp4 and
\* the .MKV are supported.
C17_ClassifierPartitions ==
    out # Unset =>
        LET supported == out.value.video_files
            unsupported == out.value.unsupported_files
        IN  /\ \A k \in DOMAIN arg :
                  /\ (arg[k] \in Range(supported)) # (arg[k] \in Range(unsupported))
                  /\ arg[k] \in Range(supported) <=>
                        \E e \in SixExtensions : SameIgnoringCase(arg[k].suffix, e)
            /\ Len(supported) + Len(unsupported) = Len(arg)
            /\ Range(supported) \cup Range(unsupported) = Range(arg)
            /\ arg = ExampleListing =>
                  /\ supported = << Entry(1), Entry(3) >>
                  /\ unsupported = << Entry(2), Entry(4) >>

\* the listing with .mp4, .txt, .MKV and .png has been classified
C17_Witness ==
    /\ out # Unset
    /\ arg = ExampleListing
    /\ Len(out.value.video_files) = 2

\* C18: when no entry of the directory is a supported file, the batch ends
\* right after the classification: no pool is created and no call
\* submitted, so no probe and no encoder runs and no output is written,
\* no result is collected and no summary rendered; nothing follows.
C18_EmptyShortCircuits ==
    (\A k \in DOMAIN all_files : ~ IsSupported(all_files[k])) =>
        /\ pc \in { "scan", "nothing" }
        /\ max_workers = 0
        /\ Calls = { }
        /\ probe_calls = << >> /\ mp4_calls = << >> /\ webm_calls = << >>
        /\ \A n \in OutNames : mp4_fs[n] = 0 /\ webm_fs[n] = 0
        /\ results = << >>
        /\ summary = Unset
        /\ pc = "nothing" => ~ ENABLED Next

\* a directory that holds only a file that is no video has been classified
C18_Witness ==
    /\ pc = "nothing"
    /\ all_files # << >>
    /\ video_files = << >>
    /\ unsupported_files = all_files

\* the retry of call i exited with a non-zero status
RetryFailed(i) == env[i].retry # Unset /\ env[i].retry.returncode # 0

\* C19: when the downgrade retry of the WebM encoder exits non-zero, the
\* call returns (raises nothing) a Failure record that carries the error of
\* the retry command, although its MP4 command and its first WebM command
\* exited 0 and both outputs were measured; the MP4 file stays on disk.
C19_RetryFailureIsFailure ==
    \A i \in Calls :
        RetryFailed(i) =>
            /\ st[i] = "returned"
            /\ IsFailed(ret[i])
            /\ ret[i].error =
                  CalledProcessError("webm", RetryRate(loc[i].target_bitrate),
                                     env[i].retry.returncode)
            /\ env[i].mp4.returncode = 0
            /\ env[i].webm.returncode = 0
            /\ webm_calls[i] = 2
            /\ loc[i].webm_size > loc[i].mp4_size
            /\ Exists(mp4_fs, Name(i))

\* a summarised batch of two assets: the retry of one failed, the other
\* asset is a Success, and the summary counts one of each
C19_Witness ==
    /\ pc = "done"
    /\ \E i, j \in Calls :
          /\ RetryFailed(i)
          /\ IsFailed(results[i])
          /\ IsSuccessful(results[j])
    /\ summary.successful = 1
    /\ summary.failed = 1

====
